---- MODULE Spec2Model ----
(***************************************************************************)
(* FarmFlow (src/app.py): the DCRI risk scorer, the crop store with its    *)
(* JSON snapshot, the listing submission and the daily revision pass.      *)
(*                                                                         *)
(* Python floats are modelled in fixed point: a real r is the integer      *)
(* r * 1000 (thousandths).  0.2 is 200, 25.0 is 25000, 6.5 is 6500.        *)
(***************************************************************************)
EXTENDS Integers, Sequences, FiniteSets, TLC

VARIABLES
    DCRI_MODEL_AVAILABLE,        \* app.py:46/49, set once at import
    call,                        \* the latest scorer call: arguments and return value
    prev,                        \* the scorer call before it, when re-scored with another fraction
    DISEASE_PCT_MODEL_AVAILABLE, \* app.py:35/38, set once at import
    crop_dcri_data,              \* app.py:54, the in-memory store (insertion-ordered dict)
    file,                        \* crop_dcri_data.json on disk
    lst,                         \* the request thread running process_crop_listing
    rev,                         \* the scheduler thread running update_dcri_daily
    now,                         \* datetime.now(), a logical clock
    alive,                       \* the process is running
    count                        \* how many listings, passes and restarts have started

scoreVars == <<DCRI_MODEL_AVAILABLE, call, prev>>
storeVars == <<DISEASE_PCT_MODEL_AVAILABLE, crop_dcri_data, file, lst, rev, now, alive, count>>
vars == <<DCRI_MODEL_AVAILABLE, call, prev, DISEASE_PCT_MODEL_AVAILABLE, crop_dcri_data,
          file, lst, rev, now, alive, count>>

-----------------------------------------------------------------------------
(* Arithmetic helpers *)

\* whole + milli/1000 as a fixed-point number
Fx(whole, milli) == whole * 1000 + milli

\* Python abs()
Abs(x) == IF x < 0 THEN -x ELSE x

\* Python min(a, b)
Min(a, b) == IF a <= b THEN a ELSE b

\* Python max(a, b)
Max(a, b) == IF a >= b THEN a ELSE b

\* Python int(x) of a float: truncation toward zero
PyInt(x) == IF x >= 0 THEN x \div 1000 ELSE -((-x) \div 1000)

\* Python round(x) of a float: nearest integer, ties to the even one
PyRound(x) ==
    LET q == x \div 1000
        r == x % 1000
    IN  IF r > 500 THEN q + 1
        ELSE IF r < 500 THEN q
        ELSE IF q % 2 = 0 THEN q ELSE q + 1

-----------------------------------------------------------------------------
(* The risk scorer *)

\* CROP_MAP.get(crop_name, 0)
CROP_MAP(crop_name) ==
    CASE crop_name = "Tomato" -> 0
      [] crop_name = "Potato" -> 1
      [] crop_name = "Pepper" -> 2
      [] crop_name = "Corn"   -> 3
      [] crop_name = "Apple"  -> 4
      [] crop_name = "Grape"  -> 5
      [] crop_name = "Wheat"  -> 6
      [] crop_name = "Rice"   -> 7
      [] crop_name = "Cotton" -> 8
      [] OTHER -> 0

\* get_default_weather() (wind_speed is never read by the scorer and is left out)
get_default_weather == [temperature |-> Fx(25, 0), humidity |-> Fx(60, 0), rainfall |-> Fx(10, 0)]

\* get_default_soil() (nitrogen, phosphorus, potassium are never read by the scorer)
get_default_soil == [ph |-> Fx(6, 500), moisture |-> Fx(50, 0)]

\* The sum of the six stress terms with neither cap nor clamp.
simple_dcri_calculation_uncapped(disease_percent, weather_data, soil_data) ==
    PyInt(disease_percent * 400
          + Abs(weather_data.temperature - Fx(25, 0)) * 5
          + Abs(weather_data.humidity - Fx(60, 0)) * 2
          + Max(0, weather_data.rainfall - Fx(30, 0)) * 3
          + Abs(soil_data.ph - Fx(6, 500)) * 50
          + Abs(soil_data.moisture - Fx(50, 0)) * 3)

\* The sum rounded to the nearest integer instead of truncated.
simple_dcri_calculation_round(disease_percent, weather_data, soil_data) ==
    LET climate_score == Min(Fx(300, 0),
                             Abs(weather_data.temperature - Fx(25, 0)) * 5
                             + Abs(weather_data.humidity - Fx(60, 0)) * 2
                             + Max(0, weather_data.rainfall - Fx(30, 0)) * 3)
        soil_score == Min(Fx(300, 0),
                          Abs(soil_data.ph - Fx(6, 500)) * 50
                          + Abs(soil_data.moisture - Fx(50, 0)) * 3)
    IN  Max(0, Min(1000, PyRound(disease_percent * 400 + climate_score + soil_score)))

\* The disease term counted as health: (1 - disease_percent) * 400.
simple_dcri_calculation_inverted(disease_percent, weather_data, soil_data) ==
    LET climate_score == Min(Fx(300, 0),
                             Abs(weather_data.temperature - Fx(25, 0)) * 5
                             + Abs(weather_data.humidity - Fx(60, 0)) * 2
                             + Max(0, weather_data.rainfall - Fx(30, 0)) * 3)
        soil_score == Min(Fx(300, 0),
                          Abs(soil_data.ph - Fx(6, 500)) * 50
                          + Abs(soil_data.moisture - Fx(50, 0)) * 3)
    IN  Max(0, Min(1000, PyInt((Fx(1, 0) - disease_percent) * 400 + climate_score + soil_score)))

\* simple_dcri_calculation(disease_percent, weather_data, soil_data), app.py:300-330
simple_dcri_calculation(disease_percent, weather_data, soil_data) ==
    LET disease_score   == disease_percent * 400
        temp            == weather_data.temperature
        humidity        == weather_data.humidity
        rainfall        == weather_data.rainfall
        temp_stress     == Abs(temp - Fx(25, 0)) * 5
        humidity_stress == Abs(humidity - Fx(60, 0)) * 2
        rainfall_stress == Max(0, rainfall - Fx(30, 0)) * 3
        climate_score   == Min(Fx(300, 0), temp_stress + humidity_stress + rainfall_stress)
        ph              == soil_data.ph
        moisture        == soil_data.moisture
        ph_stress       == Abs(ph - Fx(6, 500)) * 50
        moisture_stress == Abs(moisture - Fx(50, 0)) * 3
        soil_score      == Min(Fx(300, 0), ph_stress + moisture_stress)
        alpha_score     == PyInt(disease_score + climate_score + soil_score)
    IN  Max(0, Min(1000, alpha_score))

\* What dcri_scaler.transform / dcri_model.predict do on one call: raise, or
\* return some float alpha.  The model artifact is loaded from dcri_model.pkl
\* and nothing in the code restricts its output.
PredictorOutcomes ==
    {[kind |-> "raise", alpha |-> 0]}
    \cup {[kind |-> "value", alpha |-> a] : a \in {0, 437, Fx(1, 0), Fx(1, 200), -100}}

\* calculate_dcri(crop_name, disease_percent, weather_data, soil_data), app.py:261-298.
\* `outcome` is what the predictor does when the try block reaches it.
calculate_dcri(crop_name, disease_percent, weather_data, soil_data, available, outcome) ==
    IF ~available
    THEN simple_dcri_calculation(disease_percent, weather_data, soil_data)
    ELSE IF outcome.kind = "raise"
         THEN simple_dcri_calculation(disease_percent, weather_data, soil_data)
         ELSE PyInt(outcome.alpha * 1000)

-----------------------------------------------------------------------------
(* Inputs of the scorer *)

DiseaseVals == {0, 2, 200, 500, 998, Fx(1, 0)}

WeatherVals ==
    { get_default_weather,
      [temperature |-> Fx(25, 0),  humidity |-> Fx(60, 300), rainfall |-> Fx(10, 0)],
      [temperature |-> Fx(24, 900), humidity |-> Fx(60, 0),  rainfall |-> Fx(30, 200)],
      [temperature |-> -10000,     humidity |-> Fx(100, 0),  rainfall |-> 0],
      [temperature |-> Fx(100, 0), humidity |-> 0,           rainfall |-> Fx(1000, 0)] }

SoilVals ==
    { get_default_soil,
      [ph |-> Fx(6, 510), moisture |-> Fx(50, 0)],
      [ph |-> 0,          moisture |-> Fx(100, 0)] }

CropNames == {"Tomato", "Rice", "Unknown"}

NoCall == [fn |-> "none", crop_type |-> 0, disease_percent |-> 0,
           weather_data |-> get_default_weather, soil_data |-> get_default_soil,
           outcome |-> [kind |-> "none", alpha |-> 0], ret |-> 0]

NotCalled == [kind |-> "none", alpha |-> 0]

-----------------------------------------------------------------------------
(* The crop store and its snapshot *)

FieldNames == {"crop_name", "latitude", "longitude", "last_disease_pct", "last_update"}

\* A record of the store: a Python dict.  `keys` is the set of keys the dict
\* holds; a field whose key is absent carries a placeholder that is never read.
Record(keys, crop_name, latitude, longitude, last_disease_pct, last_update) ==
    [keys |-> keys, crop_name |-> crop_name, latitude |-> latitude, longitude |-> longitude,
     last_disease_pct |-> last_disease_pct, last_update |-> last_update]

\* str(crop_id), app.py:388
PyStr(crop_id) == IF crop_id = 1 THEN "1" ELSE IF crop_id = 2 THEN "2" ELSE "3"

\* The position of key `id` in the insertion-ordered dict, 0 when absent.
IndexOf(store, id) ==
    IF \E i \in 1..Len(store) : store[i].id = id
    THEN CHOOSE i \in 1..Len(store) : store[i].id = id
    ELSE 0

\* crop_dcri_data[id] = rec, app.py:388: replaces the value of an existing key
\* in place (the dict keeps its size), or inserts the key at the end.
Upsert(store, id, rec) ==
    IF IndexOf(store, id) = 0
    THEN Append(store, [id |-> id, rec |-> rec])
    ELSE [store EXCEPT ![IndexOf(store, id)].rec = rec]

\* crop_dcri_data[id]['last_disease_pct'] = v, app.py:456
SetDiseasePct(store, id, v) ==
    [store EXCEPT ![IndexOf(store, id)].rec =
        [@ EXCEPT !.keys = @ \cup {"last_disease_pct"}, !.last_disease_pct = v]]

\* crop_dcri_data[id]['last_update'] = t, app.py:457
SetLastUpdate(store, id, t) ==
    [store EXCEPT ![IndexOf(store, id)].rec =
        [@ EXCEPT !.keys = @ \cup {"last_update"}, !.last_update = t]]

\* data.get('last_disease_pct', 0.3), app.py:444
GetDiseasePct(data) ==
    IF "last_disease_pct" \in data.keys THEN data.last_disease_pct ELSE 300

\* np.clip(x, 0, 1), app.py:445
Clip01(x) == Max(0, Min(Fx(1, 0), x))

\* The value of one key of a record as JSON writes it.
FieldValue(rec, k) ==
    CASE k = "crop_name" -> <<"str", rec.crop_name>>
      [] k = "latitude" -> <<"num", rec.latitude>>
      [] k = "longitude" -> <<"num", rec.longitude>>
      [] k = "last_disease_pct" -> <<"num", rec.last_disease_pct>>
      [] k = "last_update" -> <<"str", rec.last_update>>

\* json.dump(crop_dcri_data, f), app.py:398 and 461: one JSON object, one
\* member per crop id in the dict's order, each value the object of the
\* record's own keys.
JsonDump(store) ==
    [i \in 1..Len(store) |->
        [name |-> store[i].id,
         members |-> {<<k, FieldValue(store[i].rec, k)>> : k \in store[i].rec.keys}]]

\* The number (or string) a JSON object holds under key k; `dflt` when it has none.
Member(members, k, dflt) ==
    IF \E m \in members : m[1] = k
    THEN (CHOOSE m \in members : m[1] = k)[2][2]
    ELSE dflt

\* json.load(f), app.py:491: the dict the JSON object denotes.
JsonLoad(doc) ==
    [i \in 1..Len(doc) |->
        [id |-> doc[i].name,
         rec |-> Record({m[1] : m \in doc[i].members},
                        Member(doc[i].members, "crop_name", ""),
                        Member(doc[i].members, "latitude", 0),
                        Member(doc[i].members, "longitude", 0),
                        Member(doc[i].members, "last_disease_pct", 0),
                        Member(doc[i].members, "last_update", 0))]]

\* The snapshot file.  kind: "absent" (no file), "complete" (one whole JSON
\* document, in doc), "torn" (empty, truncated or mixed: not a JSON document).
AbsentFile == [kind |-> "absent", doc |-> <<>>]
TornFile == [kind |-> "torn", doc |-> <<>>]
CompleteFile(store) == [kind |-> "complete", doc |-> JsonDump(store)]

\* The module-level load, app.py:488-495: a missing file gives the empty store.
LoadSnapshot(f) == IF f.kind = "complete" THEN JsonLoad(f.doc) ELSE <<>>

-----------------------------------------------------------------------------
(* Bounds and inputs of the store model *)

MaxListings == 2
MaxPasses == 2
MaxRestarts == 1
MaxTime == 1

\* cropId of a request: 0 stands for a missing or zero cropId (data.get('cropId', 0)).
CropIds == {0, 1, 2}

ListingCropNames == {"Tomato"}

LatLonVals == {[latitude |-> Fx(12, 970), longitude |-> Fx(77, 590)]}

\* simple_disease_detection(image), app.py:228-259: min(0.5, ...) of a
\* non-negative number, or uniform(0.05, 0.25).
MockDiseaseOutputs == {120}

\* float(disease_pct_model.predict(...)[0][0]), app.py:221-223: whatever the
\* network loaded from disease_percentage_model.h5 outputs.
ModelDiseaseOutputs == {Fx(1, 200)}

\* predict_disease_percentage(image), app.py:210-226: the values one call may return.
predict_disease_percentage(available) ==
    IF available THEN ModelDiseaseOutputs \cup MockDiseaseOutputs ELSE MockDiseaseOutputs

\* np.random.uniform(-0.05, 0.05), app.py:445: a draw from [-0.05, 0.05).
UniformDraws == {-50, 49}

\* Snapshots the process may find on disk when it starts: none, one written
\* by an earlier run, and ones whose records lack keys (the loop reads
\* crop_name and last_disease_pct with defaults, latitude and longitude without).
GoodRecord ==
    Record(FieldNames, "Tomato", Fx(12, 970), Fx(77, 590), 300, 0)

NoLocationRecord ==
    Record({"crop_name", "last_disease_pct", "last_update"}, "Rice", 0, 0, 400, 0)

NoDiseaseRecord ==
    Record({"latitude", "longitude", "last_update"}, "", Fx(12, 970), Fx(77, 590), 0, 0)

InitialFiles ==
    { AbsentFile,
      CompleteFile(<<[id |-> "1", rec |-> GoodRecord]>>),
      CompleteFile(<<[id |-> "1", rec |-> GoodRecord], [id |-> "2", rec |-> NoLocationRecord]>>),
      CompleteFile(<<[id |-> "1", rec |-> NoDiseaseRecord]>>) }

IdleListing == [pc |-> "idle"]

IdleRevision(result) ==
    [pc |-> "idle", pos |-> 0, used |-> 0, crop_id |-> "", data |-> GoodRecord,
     old_disease_pct |-> 0, disease_pct |-> 0, updates |-> <<>>, result |-> result]

-----------------------------------------------------------------------------
(* Initial states *)

\* After import, app.py:54 and 488-495: the store is what the snapshot holds.
Init ==
    /\ DCRI_MODEL_AVAILABLE \in BOOLEAN
    /\ call = NoCall
    /\ prev = NoCall
    /\ DISEASE_PCT_MODEL_AVAILABLE \in BOOLEAN
    /\ file \in InitialFiles
    /\ crop_dcri_data = LoadSnapshot(file)
    /\ lst = IdleListing
    /\ rev = IdleRevision("none")
    /\ now = 0
    /\ alive = TRUE
    /\ count = [listings |-> 0, passes |-> 0, restarts |-> 0]

-----------------------------------------------------------------------------
(* process_crop_listing, app.py:345-420 *)

\* Lines 348-394 with a true cropId: the record is built and stored under str(crop_id).
\* The upload, the weather and soil fetches and the scorer call (lines 359-384)
\* touch nothing of the store; disease_pct is stored as the estimator returned it.
ListingUpsert(crop_id, crop_name, loc, disease_pct) ==
    /\ alive
    /\ lst.pc = "idle"
    /\ count.listings < MaxListings
    /\ crop_id # 0
    /\ disease_pct \in predict_disease_percentage(DISEASE_PCT_MODEL_AVAILABLE)
    /\ crop_dcri_data' = Upsert(crop_dcri_data, PyStr(crop_id),
                                Record(FieldNames, crop_name, loc.latitude, loc.longitude,
                                       disease_pct, now))
    /\ lst' = [pc |-> "open"]
    /\ count' = [count EXCEPT !.listings = @ + 1]
    /\ UNCHANGED <<scoreVars, DISEASE_PCT_MODEL_AVAILABLE, file, rev, now, alive>>

\* Lines 348-387 with cropId 0 or absent: nothing is stored and nothing saved.
ListingWithoutId ==
    /\ alive
    /\ lst.pc = "idle"
    /\ count.listings < MaxListings
    /\ count' = [count EXCEPT !.listings = @ + 1]
    /\ UNCHANGED <<scoreVars, DISEASE_PCT_MODEL_AVAILABLE, crop_dcri_data, file, lst, rev,
                   now, alive>>

\* open('crop_dcri_data.json', 'w'), app.py:397: the file is truncated.
ListingOpen ==
    /\ alive
    /\ lst.pc = "open"
    /\ file' = TornFile
    /\ lst' = [pc |-> "dump"]
    /\ UNCHANGED <<scoreVars, DISEASE_PCT_MODEL_AVAILABLE, crop_dcri_data, rev, now, alive, count>>

\* What a completed json.dump and close leave on disk.  The handle writes
\* from offset 0; when the other thread has written a whole document through
\* its own handle since this one truncated the file, the bytes of the two
\* overlay and the result is this document or a mix.
DumpResults(store) ==
    IF file.kind = "complete" THEN {CompleteFile(store), TornFile} ELSE {CompleteFile(store)}

\* json.dump(crop_dcri_data, f) and the end of the with block, app.py:398.
ListingDump ==
    /\ alive
    /\ lst.pc = "dump"
    /\ file' \in DumpResults(crop_dcri_data)
    /\ lst' = IdleListing
    /\ UNCHANGED <<scoreVars, DISEASE_PCT_MODEL_AVAILABLE, crop_dcri_data, rev, now, alive, count>>

\* The write raises OSError (disk full, I/O error): caught at app.py:416, the
\* handler answers 400 and the truncated file stays.
ListingDumpFails ==
    /\ alive
    /\ lst.pc = "dump"
    /\ file' = TornFile
    /\ lst' = IdleListing
    /\ UNCHANGED <<scoreVars, DISEASE_PCT_MODEL_AVAILABLE, crop_dcri_data, rev, now, alive, count>>

-----------------------------------------------------------------------------
(* update_dcri_daily, app.py:423-470, run by scheduled_dcri_update, app.py:474-481 *)

\* One next() of the iterator over crop_dcri_data.items() followed by lines
\* 433-444, as the state of the pass afterwards.
\*   - "dictionary changed size during iteration" (RuntimeError) when a key
\*     was inserted since the iterator was created;
\*   - the loop ends when every position was visited;
\*   - KeyError at line 434/435 when the record has no latitude or longitude;
\*   - else the (crop_id, data) pair is bound and old_disease_pct read from data.
\* Either exception is caught at app.py:468 and the pass ends without saving.
IterNext(r) ==
    IF Len(crop_dcri_data) # r.used
    THEN [r EXCEPT !.pc = "idle", !.result = "RuntimeError"]
    ELSE IF r.pos = Len(crop_dcri_data)
    THEN [r EXCEPT !.pc = "open"]
    ELSE IF ~({"latitude", "longitude"} \subseteq crop_dcri_data[r.pos + 1].rec.keys)
    THEN [r EXCEPT !.pc = "idle", !.result = "KeyError"]
    ELSE [r EXCEPT !.pc = "perturb",
                   !.pos = @ + 1,
                   !.crop_id = crop_dcri_data[r.pos + 1].id,
                   !.data = crop_dcri_data[r.pos + 1].rec,
                   !.old_disease_pct = GetDiseasePct(crop_dcri_data[r.pos + 1].rec)]

\* Lines 426-432: the for statement creates the iterator, which remembers the
\* dict's size, and takes its first item at once.
StartPass ==
    /\ alive
    /\ rev.pc = "idle"
    /\ count.passes < MaxPasses
    /\ rev' = IterNext([IdleRevision("running") EXCEPT !.pc = "iter",
                                                       !.used = Len(crop_dcri_data)])
    /\ count' = [count EXCEPT !.passes = @ + 1]
    /\ UNCHANGED <<scoreVars, DISEASE_PCT_MODEL_AVAILABLE, crop_dcri_data, file, lst, now, alive>>

\* The loop comes round and next() finds the dict's size changed.
NextRecordSizeChanged ==
    /\ alive
    /\ rev.pc = "iter"
    /\ IterNext(rev).result = "RuntimeError"
    /\ rev' = IterNext(rev)
    /\ UNCHANGED <<scoreVars, DISEASE_PCT_MODEL_AVAILABLE, crop_dcri_data, file, lst, now, alive,
                   count>>

\* The loop comes round to a record without latitude or longitude.
NextRecordKeyError ==
    /\ alive
    /\ rev.pc = "iter"
    /\ IterNext(rev).result = "KeyError"
    /\ rev' = IterNext(rev)
    /\ UNCHANGED <<scoreVars, DISEASE_PCT_MODEL_AVAILABLE, crop_dcri_data, file, lst, now, alive,
                   count>>

\* The loop comes round to the next record.
NextRecord ==
    /\ alive
    /\ rev.pc = "iter"
    /\ IterNext(rev).pc = "perturb"
    /\ rev' = IterNext(rev)
    /\ UNCHANGED <<scoreVars, DISEASE_PCT_MODEL_AVAILABLE, crop_dcri_data, file, lst, now, alive,
                   count>>

\* The loop comes round and the iterator is exhausted.
LoopExit ==
    /\ alive
    /\ rev.pc = "iter"
    /\ IterNext(rev).pc = "open"
    /\ rev' = IterNext(rev)
    /\ UNCHANGED <<scoreVars, DISEASE_PCT_MODEL_AVAILABLE, crop_dcri_data, file, lst, now, alive,
                   count>>

\* Lines 445-456: the new fraction is drawn, clipped, reported in updates and
\* written to crop_dcri_data[crop_id], the record the key maps to now.
WriteDiseasePct(u) ==
    /\ alive
    /\ rev.pc = "perturb"
    /\ LET disease_pct == Clip01(rev.old_disease_pct + u)
       IN  /\ crop_dcri_data' = SetDiseasePct(crop_dcri_data, rev.crop_id, disease_pct)
           /\ rev' = [rev EXCEPT !.pc = "stamp",
                                 !.disease_pct = disease_pct,
                                 !.updates = Append(@, rev.crop_id)]
    /\ UNCHANGED <<scoreVars, DISEASE_PCT_MODEL_AVAILABLE, file, lst, now, alive, count>>

\* Line 457.
WriteLastUpdate ==
    /\ alive
    /\ rev.pc = "stamp"
    /\ crop_dcri_data' = SetLastUpdate(crop_dcri_data, rev.crop_id, now)
    /\ rev' = [rev EXCEPT !.pc = "iter"]
    /\ UNCHANGED <<scoreVars, DISEASE_PCT_MODEL_AVAILABLE, file, lst, now, alive, count>>

\* open('crop_dcri_data.json', 'w'), app.py:460: the file is truncated.
RevisionOpen ==
    /\ alive
    /\ rev.pc = "open"
    /\ file' = TornFile
    /\ rev' = [rev EXCEPT !.pc = "dump"]
    /\ UNCHANGED <<scoreVars, DISEASE_PCT_MODEL_AVAILABLE, crop_dcri_data, lst, now, alive, count>>

\* json.dump(crop_dcri_data, f) and the end of the with block, app.py:461-466.
RevisionDump ==
    /\ alive
    /\ rev.pc = "dump"
    /\ file' \in DumpResults(crop_dcri_data)
    /\ rev' = [rev EXCEPT !.pc = "idle", !.result = "ok"]
    /\ UNCHANGED <<scoreVars, DISEASE_PCT_MODEL_AVAILABLE, crop_dcri_data, lst, now, alive, count>>

\* The write raises OSError: caught at app.py:468.
RevisionDumpFails ==
    /\ alive
    /\ rev.pc = "dump"
    /\ file' = TornFile
    /\ rev' = [rev EXCEPT !.pc = "idle", !.result = "OSError"]
    /\ UNCHANGED <<scoreVars, DISEASE_PCT_MODEL_AVAILABLE, crop_dcri_data, lst, now, alive, count>>

-----------------------------------------------------------------------------
(* The environment: time, and the process stopping and starting *)

Tick ==
    /\ now < MaxTime
    /\ now' = now + 1
    /\ UNCHANGED <<scoreVars, DISEASE_PCT_MODEL_AVAILABLE, crop_dcri_data, file, lst, rev, alive,
                   count>>

\* The process stops (kill, power loss): memory and threads are gone, the file stays.
Crash ==
    /\ alive
    /\ count.restarts < MaxRestarts
    /\ alive' = FALSE
    /\ crop_dcri_data' = <<>>
    /\ lst' = IdleListing
    /\ rev' = IdleRevision("none")
    /\ UNCHANGED <<scoreVars, DISEASE_PCT_MODEL_AVAILABLE, file, now, count>>

\* The process starts and app.py:488-495 loads the snapshot.
Restart ==
    /\ ~alive
    /\ file.kind # "torn"
    /\ alive' = TRUE
    /\ crop_dcri_data' = LoadSnapshot(file)
    /\ count' = [count EXCEPT !.restarts = @ + 1]
    /\ UNCHANGED <<scoreVars, DISEASE_PCT_MODEL_AVAILABLE, file, lst, rev, now>>

\* json.load raises JSONDecodeError on a file that is no JSON document; only
\* FileNotFoundError is caught (app.py:493), so the import fails and the
\* process does not come up.
RestartFails ==
    /\ ~alive
    /\ file.kind = "torn"
    /\ count.restarts < MaxRestarts
    /\ count' = [count EXCEPT !.restarts = @ + 1]
    /\ UNCHANGED <<scoreVars, DISEASE_PCT_MODEL_AVAILABLE, crop_dcri_data, file, lst, rev, now,
                   alive>>

Next ==
    \/ \E crop_id \in CropIds, crop_name \in ListingCropNames, loc \in LatLonVals,
          disease_pct \in ModelDiseaseOutputs \cup MockDiseaseOutputs :
          ListingUpsert(crop_id, crop_name, loc, disease_pct)
    \/ ListingWithoutId
    \/ ListingOpen
    \/ ListingDump
    \/ ListingDumpFails
    \/ StartPass
    \/ NextRecordSizeChanged
    \/ NextRecordKeyError
    \/ NextRecord
    \/ LoopExit
    \/ \E u \in UniformDraws : WriteDiseasePct(u)
    \/ WriteLastUpdate
    \/ RevisionOpen
    \/ RevisionDump
    \/ RevisionDumpFails
    \/ Tick
    \/ Crash
    \/ Restart
    \/ RestartFails

Spec == Init /\ [][Next]_vars

-----------------------------------------------------------------------------
(* The scorer on its own: calls of simple_dcri_calculation and calculate_dcri *)

InitScore ==
    /\ DCRI_MODEL_AVAILABLE \in BOOLEAN
    /\ call = NoCall
    /\ prev = NoCall
    /\ DISEASE_PCT_MODEL_AVAILABLE = FALSE
    /\ file = AbsentFile
    /\ crop_dcri_data = <<>>
    /\ lst = IdleListing
    /\ rev = IdleRevision("none")
    /\ now = 0
    /\ alive = TRUE
    /\ count = [listings |-> 0, passes |-> 0, restarts |-> 0]

\* simple_dcri_calculation(disease_percent, weather_data, soil_data) is called.
ScoreHeuristic(disease_percent, weather_data, soil_data) ==
    /\ call' = [fn |-> "simple_dcri_calculation", crop_type |-> 0,
                disease_percent |-> disease_percent, weather_data |-> weather_data,
                soil_data |-> soil_data, outcome |-> NotCalled,
                ret |-> simple_dcri_calculation(disease_percent, weather_data, soil_data)]
    /\ prev' = NoCall
    /\ UNCHANGED <<DCRI_MODEL_AVAILABLE, storeVars>>

\* The same weather and soil are scored again with another disease fraction.
ScoreAgain(disease_percent) ==
    /\ call.fn = "simple_dcri_calculation"
    /\ prev' = call
    /\ call' = [call EXCEPT !.disease_percent = disease_percent,
                            !.ret = simple_dcri_calculation(disease_percent, call.weather_data,
                                                            call.soil_data)]
    /\ UNCHANGED <<DCRI_MODEL_AVAILABLE, storeVars>>

\* calculate_dcri(crop_name, disease_percent, weather_data, soil_data) is called;
\* the predictor is reached only when the model is available.
ScoreDcri(crop_name, disease_percent, weather_data, soil_data, outcome) ==
    /\ DCRI_MODEL_AVAILABLE <=> outcome # NotCalled
    /\ call' = [fn |-> "calculate_dcri", crop_type |-> CROP_MAP(crop_name),
                disease_percent |-> disease_percent, weather_data |-> weather_data,
                soil_data |-> soil_data, outcome |-> outcome,
                ret |-> calculate_dcri(crop_name, disease_percent, weather_data, soil_data,
                                       DCRI_MODEL_AVAILABLE, outcome)]
    /\ prev' = NoCall
    /\ UNCHANGED <<DCRI_MODEL_AVAILABLE, storeVars>>

NextScore ==
    \/ \E d \in DiseaseVals, w \in WeatherVals, s \in SoilVals : ScoreHeuristic(d, w, s)
    \/ \E d \in DiseaseVals : ScoreAgain(d)
    \/ \E c \in CropNames, d \in DiseaseVals, w \in WeatherVals, s \in SoilVals,
          o \in PredictorOutcomes \cup {NotCalled} : ScoreDcri(c, d, w, s, o)

SpecScore == InitScore /\ [][NextScore]_vars

-----------------------------------------------------------------------------
(* Claims about the scorer, checked under SpecScore *)

\* C1: every value simple_dcri_calculation returns, for a disease fraction in
\* [0,1] and any weather and soil, is an integer in [0,1000].
C1_HeuristicScoreInRange ==
    call.fn = "simple_dcri_calculation" => call.ret \in 0..1000

\* C1 witness: the extreme input (fraction 1, 100 degrees, humidity 0,
\* rainfall 1000, pH 0, moisture 100) was scored and gave exactly 1000.
C1_ExtremeInputScored ==
    /\ call.fn = "simple_dcri_calculation"
    /\ call.disease_percent = Fx(1, 0)
    /\ call.weather_data = [temperature |-> Fx(100, 0), humidity |-> 0, rainfall |-> Fx(1000, 0)]
    /\ call.soil_data = [ph |-> 0, moisture |-> Fx(100, 0)]
    /\ call.ret = 1000

\* C2 as stated: the heuristic score is the reference sum rounded to the
\* nearest integer, then clamped to [0,1000].
C2_ScoreIsRoundedSum ==
    call.fn = "simple_dcri_calculation" =>
        LET w == call.weather_data
            s == call.soil_data
            climate == Min(300000, Abs(w.temperature - 25000) * 5 + Abs(w.humidity - 60000) * 2
                                   + Max(0, w.rainfall - 30000) * 3)
            soil == Min(300000, Abs(s.ph - 6500) * 50 + Abs(s.moisture - 50000) * 3)
            total == call.disease_percent * 400 + climate + soil
        IN  call.ret = Max(0, Min(1000, PyRound(total)))

\* C2 amended: the heuristic score is the reference sum with its fractional
\* part dropped (the floor of a non-negative sum), then clamped to [0,1000];
\* Tomato's fraction 0.2 with default weather and soil scores 80.
C2_ScoreIsTruncatedSum ==
    call.fn = "simple_dcri_calculation" =>
        LET w == call.weather_data
            s == call.soil_data
            climate == Min(300000, Abs(w.temperature - 25000) * 5 + Abs(w.humidity - 60000) * 2
                                   + Max(0, w.rainfall - 30000) * 3)
            soil == Min(300000, Abs(s.ph - 6500) * 50 + Abs(s.moisture - 50000) * 3)
            total == call.disease_percent * 400 + climate + soil
        IN  /\ total >= 0
            /\ call.ret = Max(0, Min(1000, total \div 1000))
            /\ (/\ call.disease_percent = 200
                /\ w = [temperature |-> 25000, humidity |-> 60000, rainfall |-> 10000]
                /\ s = [ph |-> 6500, moisture |-> 50000]) => call.ret = 80

\* C2 witness: a sum with a fractional part above one half was scored
\* (fraction 0, humidity 60.3: the sum is 0.6) and the score is 0, not 1.
C2_FractionalSumScored ==
    /\ call.fn = "simple_dcri_calculation"
    /\ call.disease_percent = 0
    /\ call.weather_data = [temperature |-> 25000, humidity |-> 60300, rainfall |-> 10000]
    /\ call.soil_data = [ph |-> 6500, moisture |-> 50000]
    /\ call.ret = 0

\* C3: for the same weather and soil, a disease fraction that is no smaller
\* gets a heuristic score that is no smaller.
C3_MonotoneInDisease ==
    (/\ prev.fn = "simple_dcri_calculation"
     /\ call.fn = "simple_dcri_calculation"
     /\ prev.weather_data = call.weather_data
     /\ prev.soil_data = call.soil_data) =>
        /\ prev.disease_percent <= call.disease_percent => prev.ret <= call.ret
        /\ prev.disease_percent >= call.disease_percent => prev.ret >= call.ret

\* C3 witness: two calls on the same weather and soil, the second with a
\* larger fraction and a strictly larger score.
C3_TwoFractionsScored ==
    /\ prev.fn = "simple_dcri_calculation"
    /\ call.fn = "simple_dcri_calculation"
    /\ prev.weather_data = call.weather_data
    /\ prev.soil_data = call.soil_data
    /\ prev.disease_percent < call.disease_percent
    /\ prev.ret < call.ret

\* C10: every value calculate_dcri returns is an integer in [0,1000],
\* whichever strategy ran and whatever the predictor returned.
C10_DcriScoreInRange ==
    call.fn = "calculate_dcri" => call.ret \in 0..1000

-----------------------------------------------------------------------------
(* Claims about the store, checked under Spec *)

\* C4: every record's last_disease_pct lies in [0,1] in every reachable state.
C4_StoredFractionInUnitInterval ==
    \A i \in 1..Len(crop_dcri_data) :
        "last_disease_pct" \in crop_dcri_data[i].rec.keys =>
            /\ crop_dcri_data[i].rec.last_disease_pct >= 0
            /\ crop_dcri_data[i].rec.last_disease_pct <= Fx(1, 0)

\* C5: the fraction a revision pass has just written for a record is in
\* [0,1] and differs from the fraction it read for that record by at most 0.05.
C5_RevisionStepBounded ==
    rev.pc = "stamp" =>
        /\ Abs(rev.disease_pct - rev.old_disease_pct) <= 50
        /\ rev.disease_pct >= 0
        /\ rev.disease_pct <= Fx(1, 0)

\* C6: a listing's upsert and a revision pass never interleave on a record so
\* that the upsert is lost: the pass never writes the perturbation of the
\* fraction it read into a record that was replaced since the read, and the
\* pass is never ended by the store changing size under its iteration.
C6_NoLostUpdate ==
    /\ rev.result # "RuntimeError"
    /\ rev.pc = "stamp" =>
          LET cur == crop_dcri_data[IndexOf(crop_dcri_data, rev.crop_id)].rec
              mine == [rev.data EXCEPT !.keys = @ \cup {"last_disease_pct"},
                                       !.last_disease_pct = rev.disease_pct]
          IN  ~(cur # mine /\ cur.last_disease_pct = rev.disease_pct)

\* C7: a record that fails inside the loop (one without latitude or
\* longitude) does not end the pass: no pass ends with that record's KeyError.
C7_RecordFailureIsolated ==
    rev.result # "KeyError"

\* C8: whenever no save is in the middle of its write (the process is down,
\* or no handler is between open and the end of json.dump), the snapshot file
\* is absent or one complete document.
C8_SnapshotNeverTorn ==
    (~alive \/ (lst.pc # "dump" /\ rev.pc # "dump")) => file.kind # "torn"

\* C9: when no handler is running and the file is a readable snapshot (or
\* absent), loading it gives the in-memory store: the same ids in the same
\* order with the same keys and values.
C9_SnapshotEqualsStore ==
    (alive /\ lst.pc = "idle" /\ rev.pc = "idle" /\ file.kind # "torn") =>
        LoadSnapshot(file) = crop_dcri_data

-----------------------------------------------------------------------------
(* Supporting invariants of Spec: how far C5 and C9 reach *)

\* The step bound of C5 holds for every record whose stored fraction is at most 1.
C5_HoldsForFractionsUpToOne ==
    C5_RevisionStepBounded \/ rev.old_disease_pct > Fx(1, 0)

\* The equality of C9 holds in every quiescent state whose latest pass was not aborted.
C9_HoldsUnlessPassAborted ==
    C9_SnapshotEqualsStore \/ rev.result \in {"KeyError", "RuntimeError"}

====
